---- MODULE Spec2Model ----
(***************************************************************************)
(* Model of the Habr ingestion pipeline: HabrParser (src/src/parser.py)    *)
(* and the streaming Exporter with its three backends                      *)
(* (src/src/utils/export.py).                                              *)
(*                                                                         *)
(* Every action is one segment of a coroutine between two suspension       *)
(* points of the asyncio event loop, so it is atomic in the program too,   *)
(* or the file or executor operation a suspended exporter call waits for,  *)
(* carried out by a worker thread before the call resumes.                 *)
(***************************************************************************)
EXTENDS Integers, Sequences, FiniteSets, TLC

VARIABLES
    config,          \* ParserConfig: pages, request and save settings
    remote,          \* the responses the remote service may give
    session,         \* HabrParser.session, with counts of sessions created and closed
    semaphore,       \* HabrParser.semaphore: the number of free units
    tasks,           \* one get_post_data coroutine per identifier of the batch in flight
    run,             \* position and locals of cli.main / HabrParser.ingest_all
    calls,           \* log of the calls made on the Exporter facade, and the call in progress
    exporter,        \* the Exporter facade and the backend it owns
    disk             \* the file at the exporter's path

vars == <<config, remote, session, semaphore, tasks, run, calls, exporter, disk>>

----------------------------------------------------------------------------
(* Bounds of the model *)

\* first identifier of a range
FirstId == 2
\* longest identifier range of a run
MaxIds == 3
\* largest retry_attempts of the fetch specification
MaxRetry == 3
\* largest buffer_size of the exporter specification
MaxBuffer == 2
\* longest sequence of save_chunk calls of the exporter specification
MaxSaves == 3

----------------------------------------------------------------------------
(* Program constants: parser.py, lines 26-28 *)

HTTP_OK == 200
HTTP_530 == 530
HTTP_TOO_MANY_REQUESTS == 429

----------------------------------------------------------------------------
(* Small helpers *)

Range(s) == {s[k] : k \in DOMAIN s}

\* the smaller of two integers (Python's min)
Min(a, b) == IF a <= b THEN a ELSE b

\* list(range(first, last + 1)), parser.py line 252
all_post_ids(cfg) ==
    [k \in 1..(IF cfg.last >= cfg.first THEN cfg.last - cfg.first + 1 ELSE 0)
        |-> cfg.first + k - 1]

\* a slice that takes one identifier too many
batch_ids_one_more(cfg, i) ==
    LET ids == all_post_ids(cfg)
        hi  == Min(i + cfg.batch_size + 1, Len(ids))
    IN  [k \in 1..(hi - i) |-> ids[i + k]]

\* all_post_ids[i:i + batch_size], parser.py line 255 (i is a 0-based offset)
batch_ids(cfg, i) ==
    LET ids == all_post_ids(cfg)
        hi  == Min(i + cfg.batch_size, Len(ids))
    IN  [k \in 1..(hi - i) |-> ids[i + k]]

----------------------------------------------------------------------------
(* The remote service and the parsing collaborator *)

\* an HTTP response with a status and, for 200, a body
HttpResponse(status, body) == [status |-> status, body |-> body]

\* session.get raising instead of answering
Raised(exc) == [exc |-> exc]

IsHttp(resp) == "status" \in DOMAIN resp

\* the documents the remote may serve with status 200
Bodies == {"article", "stub", "malformed"}

\* every answer to one HTTP attempt that the model considers
AllResponses ==
    {HttpResponse(HTTP_OK, b) : b \in Bodies}
    \cup {HttpResponse(s, "") : s \in {HTTP_TOO_MANY_REQUESTS, HTTP_530, 503, 500}}
    \cup {Raised("ClientError"), Raised("TimeoutError")}

\* HabrParser.parse_post: "stub" has no post-content-body anchor, "article"
\* has one, "malformed" has one and a <time> tag that fromisoformat rejects.
parse_post(text) ==
    IF text = "stub"
    THEN [kind |-> "return", value |-> [status |-> "not_found"]]
    ELSE IF text = "article"
    THEN [kind |-> "return",
          value |-> [status |-> "ok", title |-> "title", text |-> "text",
                     keywords |-> "keywords", username |-> "username",
                     hubs |-> "hubs", time |-> "time",
                     reading_time |-> "reading_time"]]
    ELSE [kind |-> "raise", exc |-> [type |-> "ValueError"]]

----------------------------------------------------------------------------
(* FetchPostError, utils/exceptions.py *)

FetchPostError(post_id, status_code) ==
    [type |-> "FetchPostError", post_id |-> post_id, status_code |-> status_code]

\* str(e): the message given to Exception.__init__ for a FetchPostError, the
\* exception's own text otherwise
str(e) ==
    IF e.type = "FetchPostError"
    THEN [msg |-> "Failed to fetch post", post_id |-> e.post_id,
          status_code |-> e.status_code]
    ELSE [msg |-> e.type]

\* f"HTTP {response.status}", parser.py line 163
HttpMessage(status) == [text |-> "HTTP", status |-> status]

\* parser.py line 170
MaxRetriesMessage == [text |-> "Max retries exceeded"]

----------------------------------------------------------------------------
(* The file at the exporter's path.  Content is a sequence of tokens (JSON), *)
(* of lines (CSV) or of rows (Parquet).                                      *)

NoFile == [exists |-> FALSE, content |-> <<>>]

\* open(path, "w"): creates or truncates
Truncated == [exists |-> TRUE, content |-> <<>>]

write(d, content) == [d EXCEPT !.content = @ \o content]

\* "".join(buffer): the fragments one after another
RECURSIVE join(_)
join(buffer) ==
    IF buffer = <<>> THEN <<>> ELSE Head(buffer) \o join(Tail(buffer))

\* one call on the exporter, a coroutine: the operation, the await it is
\* suspended at, whether the awaited operation has been carried out (by a
\* worker thread) while the coroutine has not resumed yet, the record given
\* to save_chunk, the value the awaited operation works on or returns, and
\* the exception the call ended with ("None" while running or on return)
NoData == [id |-> 0]

NoFrame ==
    [op |-> "None", at |-> "end", ready |-> FALSE, data |-> NoData,
     tmp |-> <<>>, raised |-> "None"]

Frame(op, data) == [NoFrame EXCEPT !.op = op, !.at = "start", !.data = data]

\* the coroutine reaches an await
Await(f, at, tmp) == [f EXCEPT !.at = at, !.ready = FALSE, !.tmp = tmp]

\* the awaited operation is done, its result waits for the coroutine
Ready(f, tmp) == [f EXCEPT !.ready = TRUE, !.tmp = tmp]

\* the call returns
Return(f) == [f EXCEPT !.at = "end", !.ready = FALSE, !.tmp = <<>>]

\* the call ends by raising
Raise(f, exc) == [Return(f) EXCEPT !.raised = exc]

\* an exporter object, the file and a call between two steps
Machine(self, d, f) == [self |-> self, disk |-> d, frame |-> f]

\* loop.run_in_executor(self.executor, ...): submitting to an executor that
\* has been shut down raises RuntimeError at once
run_in_executor(f, at, shutdown) ==
    IF shutdown THEN Raise(f, "RuntimeError") ELSE Await(f, at, <<>>)

\* the file operations of a call, each of which the injected fault can fail
\* with OSError: the open, the writes and the close of a file that is open
\* (a write to a closed file raises ValueError before anything reaches the
\* device, closing a closed file does nothing), and to_parquet
Faultable(self, f) ==
    /\ ~f.ready
    /\ \/ f.at \in {"open", "to_parquet"}
       \/ /\ f.at \in {"write_open", "header_write", "flush", "write_close", "close"}
          /\ self.file = "open"

----------------------------------------------------------------------------
(* JsonExporter, export.py lines 85-147 *)

LBRACKET == [tok |-> "["]
RBRACKET == [tok |-> "]"]
COMMA == [tok |-> ","]

\* json.dumps(data, ensure_ascii=False): one object token holding the record
json_dumps(data) == <<[tok |-> "obj", val |-> data]>>

JsonExporter(buffer_size) ==
    [cls |-> "JsonExporter", buffer_size |-> buffer_size, buffer |-> <<>>,
     first_item |-> TRUE, file |-> "None"]

\* __flush_buffer after the write, line 140
JsonExporter_flushed(self) == [self EXCEPT !.buffer = <<>>]

\* finalize after the flush, lines 145-147: a closed file object is truthy
JsonExporter_close(self, d, f) ==
    IF self.file # "None"
    THEN Machine(self, d, Await(f, "write_close", <<>>))
    ELSE Machine(self, d, Return(f))

\* what follows __flush_buffer: the end of save_chunk, the rest of finalize
JsonExporter_after_flush(self, d, f) ==
    IF f.op = "finalize" THEN JsonExporter_close(self, d, f)
    ELSE Machine(self, d, Return(f))

\* __flush_buffer up to the write, lines 135-139
JsonExporter_flush_buffer(self, d, f) ==
    IF self.buffer # <<>> /\ self.file # "None"
    THEN Machine(self, d, Await(f, "flush", join(self.buffer)))
    ELSE JsonExporter_after_flush(self, d, f)

\* a fragment that always starts with the separator
JsonExporter_fragment_always_comma(self, data) == <<COMMA>> \o json_dumps(data)

\* the fragment appended to the buffer, lines 125-128
JsonExporter_fragment(self, data) ==
    IF ~self.first_item THEN <<COMMA>> \o json_dumps(data) ELSE json_dumps(data)

\* save_chunk once json.dumps has returned, lines 125-133
JsonExporter_append(self, d, f) ==
    LET s1 == [self EXCEPT
                  !.buffer = Append(@, JsonExporter_fragment(self, f.data)),
                  !.first_item = FALSE]
    IN  IF Len(s1.buffer) >= s1.buffer_size
        THEN JsonExporter_flush_buffer(s1, d, f)
        ELSE Machine(s1, d, Return(f))

\* save_chunk once the file is there, lines 119-123
JsonExporter_dumps(self, d, f, shutdown) ==
    Machine(self, d, run_in_executor(f, "dumps", shutdown))

\* save_chunk up to its first await, lines 111-117 and 105-108
JsonExporter_save_chunk(self, d, f, shutdown) ==
    IF self.file = "None"
    THEN Machine(self, d, Await(f, "open", <<>>))
    ELSE JsonExporter_dumps(self, d, f, shutdown)

\* finalize up to its first await, lines 142-144
JsonExporter_finalize(self, d, f) == JsonExporter_flush_buffer(self, d, f)

\* the operation a call of the JSON backend waits for is carried out:
\* aiofiles.open (line 108), file.write (lines 109, 139, 146), json.dumps in
\* the executor (line 120), file.close (line 147).  Writing to a closed file
\* raises ValueError; fault: the file operation raises OSError, in
\* save_chunk and in finalize alike.
JsonExporter_io(self, d, f, fault) ==
    IF f.at = "open"
    THEN IF fault THEN Machine(self, d, Raise(f, "OSError"))
         ELSE Machine(self, Truncated, Ready(f, <<>>))
    ELSE IF f.at = "write_open"
    THEN IF fault THEN Machine(self, d, Raise(f, "OSError"))
         ELSE Machine(self, write(d, <<LBRACKET>>), Ready(f, <<>>))
    ELSE IF f.at = "dumps"
    THEN Machine(self, d, Ready(f, json_dumps(f.data)))
    ELSE IF f.at = "flush"
    THEN IF self.file = "closed" THEN Machine(self, d, Raise(f, "ValueError"))
         ELSE IF fault THEN Machine(self, d, Raise(f, "OSError"))
         ELSE Machine(self, write(d, f.tmp), Ready(f, <<>>))
    ELSE IF f.at = "write_close"
    THEN IF self.file = "closed" THEN Machine(self, d, Raise(f, "ValueError"))
         ELSE IF fault THEN Machine(self, d, Raise(f, "OSError"))
         ELSE Machine(self, write(d, <<RBRACKET>>), Ready(f, <<>>))
    ELSE IF fault /\ self.file = "open" THEN Machine(self, d, Raise(f, "OSError"))
    ELSE Machine([self EXCEPT !.file = "closed"], d, Ready(f, <<>>))

\* the call resumes after the await and runs to its next await or its end
JsonExporter_resume(self, d, f, shutdown) ==
    IF f.at = "open"
    THEN Machine([self EXCEPT !.file = "open"], d, Await(f, "write_open", <<>>))
    ELSE IF f.at = "write_open" THEN JsonExporter_dumps(self, d, f, shutdown)
    ELSE IF f.at = "dumps" THEN JsonExporter_append(self, d, f)
    ELSE IF f.at = "flush"
    THEN JsonExporter_after_flush(JsonExporter_flushed(self), d, f)
    ELSE IF f.at = "write_close" THEN Machine(self, d, Await(f, "close", <<>>))
    ELSE Machine(self, d, Return(f))

----------------------------------------------------------------------------
(* CsvExporter, export.py lines 150-238 *)

CsvExporter(buffer_size) ==
    [cls |-> "CsvExporter", buffer_size |-> buffer_size, fieldnames |-> {},
     buffer |-> <<>>, header_written |-> FALSE, file |-> "None"]

\* __convert_to_csv_line, lines 201-215: DictWriter.writerow over the current
\* fieldnames, a missing key gives the empty restval.  The line is kept as
\* the mapping column -> cell: the order of the cells is the iteration order
\* of the fieldnames set, the same order the header is joined in.
CsvExporter_convert_to_csv_line(self, data) ==
    <<[row |-> [f \in self.fieldnames |->
                    IF f \in DOMAIN data THEN data[f] ELSE ""]]>>

\* a header that is never written
CsvExporter_write_header_skipped(d, header) == d

\* _write_header, line 225: the joined header goes to the file
CsvExporter_write_header(d, header) == write(d, header)

\* finalize after the flush, lines 237-238
CsvExporter_close(self, d, f) ==
    IF self.file # "None"
    THEN Machine(self, d, Await(f, "close", <<>>))
    ELSE Machine(self, d, Return(f))

\* what follows __flush_buffer: the end of save_chunk, the rest of finalize
CsvExporter_after_flush(self, d, f) ==
    IF f.op = "finalize" THEN CsvExporter_close(self, d, f)
    ELSE Machine(self, d, Return(f))

\* __flush_buffer up to the write, lines 227-231
CsvExporter_flush_buffer(self, d, f) ==
    IF self.buffer # <<>> /\ self.file # "None"
    THEN Machine(self, d, Await(f, "flush", join(self.buffer)))
    ELSE CsvExporter_after_flush(self, d, f)

\* the end of save_chunk, lines 198-199
CsvExporter_flush_if_full(self, d, f) ==
    IF Len(self.buffer) >= self.buffer_size
    THEN CsvExporter_flush_buffer(self, d, f)
    ELSE Machine(self, d, Return(f))

\* save_chunk once the line is in the buffer, lines 194-196 and 217-223
CsvExporter_header(self, d, f, shutdown) ==
    IF ~self.header_written
    THEN IF self.file # "None"
         THEN Machine(self, d, run_in_executor(f, "header_join", shutdown))
         ELSE CsvExporter_flush_if_full([self EXCEPT !.header_written = TRUE], d, f)
    ELSE CsvExporter_flush_if_full(self, d, f)

\* save_chunk once the file is there, lines 184-190
CsvExporter_convert(self, d, f, shutdown) ==
    Machine([self EXCEPT !.fieldnames = @ \cup DOMAIN f.data], d,
            run_in_executor(f, "convert", shutdown))

\* save_chunk up to its first await, lines 176-183 and 171-174
CsvExporter_save_chunk(self, d, f, shutdown) ==
    IF self.file = "None"
    THEN Machine(self, d, Await(f, "open", <<>>))
    ELSE CsvExporter_convert(self, d, f, shutdown)

\* finalize up to its first await, lines 234-236
CsvExporter_finalize(self, d, f) == CsvExporter_flush_buffer(self, d, f)

\* the operation a call of the CSV backend waits for is carried out:
\* aiofiles.open (line 174), __convert_to_csv_line and the join of the header
\* in the executor (lines 186, 221), file.write (lines 225, 231), file.close
\* (line 238)
CsvExporter_io(self, d, f, fault) ==
    IF f.at = "open"
    THEN IF fault THEN Machine(self, d, Raise(f, "OSError"))
         ELSE Machine(self, Truncated, Ready(f, <<>>))
    ELSE IF f.at = "convert"
    THEN Machine(self, d, Ready(f, CsvExporter_convert_to_csv_line(self, f.data)))
    ELSE IF f.at = "header_join"
    THEN Machine(self, d, Ready(f, <<[header |-> self.fieldnames]>>))
    ELSE IF f.at = "header_write"
    THEN IF self.file = "closed" THEN Machine(self, d, Raise(f, "ValueError"))
         ELSE IF fault THEN Machine(self, d, Raise(f, "OSError"))
         ELSE Machine(self, CsvExporter_write_header(d, f.tmp), Ready(f, <<>>))
    ELSE IF f.at = "flush"
    THEN IF self.file = "closed" THEN Machine(self, d, Raise(f, "ValueError"))
         ELSE IF fault THEN Machine(self, d, Raise(f, "OSError"))
         ELSE Machine(self, write(d, f.tmp), Ready(f, <<>>))
    ELSE IF fault /\ self.file = "open" THEN Machine(self, d, Raise(f, "OSError"))
    ELSE Machine([self EXCEPT !.file = "closed"], d, Ready(f, <<>>))

\* the call resumes after the await and runs to its next await or its end
CsvExporter_resume(self, d, f, shutdown) ==
    IF f.at = "open"
    THEN CsvExporter_convert([self EXCEPT !.file = "open"], d, f, shutdown)
    ELSE IF f.at = "convert"
    THEN CsvExporter_header([self EXCEPT !.buffer = Append(@, f.tmp)], d, f, shutdown)
    ELSE IF f.at = "header_join"
    THEN Machine(self, d, Await(f, "header_write", f.tmp))
    ELSE IF f.at = "header_write"
    THEN CsvExporter_flush_if_full([self EXCEPT !.header_written = TRUE], d, f)
    ELSE IF f.at = "flush"
    THEN CsvExporter_after_flush([self EXCEPT !.buffer = <<>>], d, f)
    ELSE Machine(self, d, Return(f))

----------------------------------------------------------------------------
(* ParquetExporter, export.py lines 241-295 *)

ParquetExporter(buffer_size) ==
    [cls |-> "ParquetExporter", buffer_size |-> buffer_size, data_chunks |-> <<>>]

\* pd.DataFrame(data_chunks): one row per record over the union of the keys,
\* a missing cell is NaN
DataFrame(data_chunks) ==
    LET columns == UNION {DOMAIN data_chunks[k] : k \in DOMAIN data_chunks}
    IN  [k \in DOMAIN data_chunks |->
            [c \in columns |->
                IF c \in DOMAIN data_chunks[k] THEN data_chunks[k][c] ELSE "NaN"]]

\* __save_to_parquet, lines 283-291: df.to_parquet(path) writes the whole
\* file anew
ParquetExporter_save_to_parquet(d, data_chunks) ==
    IF data_chunks # <<>>
    THEN write(Truncated, DataFrame(data_chunks))
    ELSE d

\* __save_chunks up to its await, lines 270-281: the in-memory batch is
\* cleared before the copy is handed to the executor
ParquetExporter_save_chunks(self, d, f, shutdown) ==
    IF self.data_chunks = <<>>
    THEN Machine(self, d, Return(f))
    ELSE LET chunks_to_save == self.data_chunks
             s1 == [self EXCEPT !.data_chunks = <<>>]
         IN  IF shutdown
             THEN Machine(s1, d, Raise(f, "RuntimeError"))
             ELSE Machine(s1, d, Await(f, "to_parquet", chunks_to_save))

\* save_chunk up to its first await, lines 259-268
ParquetExporter_save_chunk(self, d, f, shutdown) ==
    LET s1 == [self EXCEPT !.data_chunks = Append(@, f.data)]
    IN  IF Len(s1.data_chunks) >= s1.buffer_size
        THEN ParquetExporter_save_chunks(s1, d, f, shutdown)
        ELSE Machine(s1, d, Return(f))

\* finalize up to its first await, lines 293-295
ParquetExporter_finalize(self, d, f, shutdown) ==
    ParquetExporter_save_chunks(self, d, f, shutdown)

\* __save_to_parquet runs in the executor, line 277; fault: to_parquet
\* raises OSError
ParquetExporter_io(self, d, f, fault) ==
    IF fault THEN Machine(self, d, Raise(f, "OSError"))
    ELSE Machine(self, ParquetExporter_save_to_parquet(d, f.tmp), Ready(f, <<>>))

\* the call resumes after the await and ends
ParquetExporter_resume(self, d, f) == Machine(self, d, Return(f))

----------------------------------------------------------------------------
(* Exporter facade, export.py lines 34-82 *)

NoBackend == [cls |-> "None"]

\* a facade that creates its backend at construction
Exporter_eager(extension, buffer_size) ==
    [extension |-> extension, buffer_size |-> buffer_size,
     backend |-> IF extension = ".json" THEN JsonExporter(buffer_size)
                 ELSE IF extension = ".csv" THEN CsvExporter(buffer_size)
                 ELSE IF extension = ".parquet" THEN ParquetExporter(buffer_size)
                 ELSE NoBackend,
     executor_shutdown |-> FALSE]

\* Exporter.__init__, lines 43-49
Exporter(extension, buffer_size) ==
    [extension |-> extension, buffer_size |-> buffer_size,
     backend |-> NoBackend, executor_shutdown |-> FALSE]

\* __get_exporter, lines 51-68: the facade after the call and the exception
\* the call raised
Exporter_get_exporter(self) ==
    IF self.backend.cls = "None"
    THEN IF self.extension = ".json"
         THEN [self |-> [self EXCEPT !.backend = JsonExporter(self.buffer_size)],
               raised |-> "None"]
         ELSE IF self.extension = ".csv"
         THEN [self |-> [self EXCEPT !.backend = CsvExporter(self.buffer_size)],
               raised |-> "None"]
         ELSE IF self.extension = ".parquet"
         THEN [self |-> [self EXCEPT !.backend = ParquetExporter(self.buffer_size)],
               raised |-> "None"]
         ELSE [self |-> self, raised |-> "ValueError"]
    ELSE [self |-> self, raised |-> "None"]

\* dispatch of save_chunk to the backend instance
Backend_save_chunk(backend, d, f, shutdown) ==
    IF backend.cls = "JsonExporter" THEN JsonExporter_save_chunk(backend, d, f, shutdown)
    ELSE IF backend.cls = "CsvExporter" THEN CsvExporter_save_chunk(backend, d, f, shutdown)
    ELSE ParquetExporter_save_chunk(backend, d, f, shutdown)

\* dispatch of finalize to the backend instance
Backend_finalize(backend, d, f, shutdown) ==
    IF backend.cls = "JsonExporter" THEN JsonExporter_finalize(backend, d, f)
    ELSE IF backend.cls = "CsvExporter" THEN CsvExporter_finalize(backend, d, f)
    ELSE ParquetExporter_finalize(backend, d, f, shutdown)

\* the awaited operation of a backend call is carried out
Backend_io(backend, d, f, fault) ==
    IF backend.cls = "JsonExporter" THEN JsonExporter_io(backend, d, f, fault)
    ELSE IF backend.cls = "CsvExporter" THEN CsvExporter_io(backend, d, f, fault)
    ELSE ParquetExporter_io(backend, d, f, fault)

\* a backend call resumes after its await
Backend_resume(backend, d, f, shutdown) ==
    IF backend.cls = "JsonExporter" THEN JsonExporter_resume(backend, d, f, shutdown)
    ELSE IF backend.cls = "CsvExporter" THEN CsvExporter_resume(backend, d, f, shutdown)
    ELSE ParquetExporter_resume(backend, d, f)

\* the facade after a step m of its backend: once the backend's finalize has
\* returned, Exporter.finalize shuts the executor down, line 82
Exporter_awaited(self, m) ==
    Machine([self EXCEPT
                !.backend = m.self,
                !.executor_shutdown =
                    IF /\ m.frame.op = "finalize"
                       /\ m.frame.at = "end"
                       /\ m.frame.raised = "None"
                    THEN TRUE ELSE @],
            m.disk, m.frame)

\* Exporter.save_chunk up to its first await, lines 70-76
Exporter_save_chunk(self, d, data) ==
    LET got == Exporter_get_exporter(self)
        f == Frame("save_chunk", data)
    IN  IF got.raised # "None" THEN Machine(self, d, Raise(f, got.raised))
        ELSE Exporter_awaited(got.self,
                 Backend_save_chunk(got.self.backend, d, f,
                                    got.self.executor_shutdown))

\* Exporter.finalize up to its first await, lines 78-82
Exporter_finalize(self, d) ==
    LET f == Frame("finalize", NoData)
    IN  IF self.backend.cls # "None"
        THEN Exporter_awaited(self,
                 Backend_finalize(self.backend, d, f, self.executor_shutdown))
        ELSE Machine([self EXCEPT !.executor_shutdown = TRUE], d, Return(f))

\* one step of a call f that is suspended in the backend: the operation it
\* waits for is carried out, or the call resumes with the result
Exporter_step(self, d, f, fault) ==
    IF f.ready
    THEN Exporter_awaited(self,
             Backend_resume(self.backend, d, f, self.executor_shutdown))
    ELSE Exporter_awaited(self, Backend_io(self.backend, d, f, fault))

\* a file.close that raised (lines 147, 238) may have closed the file object
\* all the same: the close of a buffered file flushes first, and when the
\* flush fails the descriptor is released before the error is raised
Exporter_close_failed(m) ==
    [m EXCEPT !.self.backend.file = "closed"]

\* the step of a call f in which file.close raises; closed: the file object
\* is closed nevertheless
Exporter_step_closing(self, d, f, fault, closed) ==
    LET m == Exporter_step(self, d, f, fault)
    IN  IF closed THEN Exporter_close_failed(m) ELSE m

\* a close of an open file that fails
ClosingFails(self, f, fault) ==
    fault /\ ~f.ready /\ f.at = "close" /\ self.backend.file = "open"

\* the calls made on the facade so far: the records given to save_chunk, the
\* number of finalize calls, the number of calls that raised, the last call,
\* the call before it, and the call in progress
NoCalls == [save_chunk |-> <<>>, finalize |-> 0, errors |-> 0,
            last |-> [op |-> "None", raised |-> "None"],
            prev |-> [op |-> "None", raised |-> "None"], active |-> NoFrame]

\* the log when a call starts and runs to its first await, in state f
Logged(log, f) ==
    [log EXCEPT !.save_chunk = IF f.op = "save_chunk" THEN Append(@, f.data) ELSE @,
                !.finalize = IF f.op = "finalize" THEN @ + 1 ELSE @,
                !.errors = IF f.raised # "None" THEN @ + 1 ELSE @,
                !.last = [op |-> f.op, raised |-> f.raised],
                !.prev = log.last,
                !.active = IF f.at = "end" THEN NoFrame ELSE f]

\* the log after a step of the call in progress, now in state f
Stepped(log, f) ==
    [log EXCEPT !.errors = IF f.raised # "None" THEN @ + 1 ELSE @,
                !.last.raised = f.raised,
                !.active = IF f.at = "end" THEN NoFrame ELSE f]

----------------------------------------------------------------------------
(* HabrParser: session and concurrency budget, parser.py lines 56, 89-108 *)

NoSession == [state |-> "None", created |-> 0, closed |-> 0]

\* an init_session that creates a session whatever the state of the old one
init_session_always(s) == [s EXCEPT !.state = "open", !.created = @ + 1]

\* init_session, lines 89-103
init_session(s) ==
    IF s.state = "None" \/ s.state = "closed"
    THEN [s EXCEPT !.state = "open", !.created = @ + 1]
    ELSE s

\* close_session, lines 105-108
close_session(s) ==
    IF s.state # "None" /\ s.state # "closed"
    THEN [s EXCEPT !.state = "closed", !.closed = @ + 1]
    ELSE s

\* a semaphore created without units
Semaphore_empty(cfg) == 0

\* asyncio.Semaphore(max_concurrent_requests), line 56
Semaphore(cfg) == cfg.max_concurrent_requests

\* an acquire that takes no unit
acquire_without_unit(value) == value

\* a release that gives no unit back
release_forgotten(value) == value

\* entering `async with self.semaphore`, line 142
acquire(value) == value - 1

\* leaving `async with self.semaphore`, on return and on exception
release(value) == value + 1

----------------------------------------------------------------------------
(* HabrParser.get_post_data and fetch_post, parser.py lines 133-171, 217-236 *)

\* get_post_data with the `except Exception` clause missing: only a
\* FetchPostError becomes a record, parse and other errors propagate
get_post_data_uncaught(post_id, fetched) ==
    IF fetched.kind = "return"
    THEN LET parsed == parse_post(fetched.text)
         IN  IF parsed.kind = "return"
             THEN [kind |-> "value", value |-> parsed.value @@ [id |-> post_id]]
             ELSE [kind |-> "raise", exc |-> parsed.exc]
    ELSE IF fetched.exc.type = "FetchPostError"
    THEN [kind |-> "value",
          value |-> [id |-> post_id, status |-> "fetch_error",
                     error |-> str(fetched.exc)]]
    ELSE [kind |-> "raise", exc |-> fetched.exc]

\* the record get_post_data returns for what fetch_post returned or raised,
\* lines 225-236
get_post_data(post_id, fetched) ==
    IF fetched.kind = "return"
    THEN LET parsed == parse_post(fetched.text)
         IN  IF parsed.kind = "return"
             THEN [kind |-> "value", value |-> parsed.value @@ [id |-> post_id]]
             ELSE [kind |-> "value",
                   value |-> [id |-> post_id, status |-> "error",
                              error |-> str(parsed.exc)]]
    ELSE IF fetched.exc.type = "FetchPostError"
    THEN [kind |-> "value",
          value |-> [id |-> post_id, status |-> "fetch_error",
                     error |-> str(fetched.exc)]]
    ELSE [kind |-> "value",
          value |-> [id |-> post_id, status |-> "error",
                     error |-> str(fetched.exc)]]

\* a get_post_data coroutine that gather has just scheduled
NewTask ==
    [pc |-> "wait_sem", holds |-> FALSE, attempt |-> 0, requests |-> 0,
     delays |-> 0, hist |-> <<>>, fetched |-> [kind |-> "none"],
     ret |-> [kind |-> "none"]]

\* a retry loop that also retries on every 5xx status
IsRetryableStatus_any5xx(status) ==
    status = HTTP_530 \/ status = HTTP_TOO_MANY_REQUESTS \/ status >= 500

\* a pacing delay that is skipped: the loop goes on without sleeping
Delayed_skipped(t) == [t EXCEPT !.pc = "delay"]

\* classification of a response status inside the retry loop, lines 151-164
IsSuccessStatus(status) == status = HTTP_OK
IsRetryableStatus(status) == status = HTTP_530 \/ status = HTTP_TOO_MANY_REQUESTS

\* no exception of session.get is retried
IsRetryableException_none(exc) == FALSE

\* every exception of session.get is retried
IsRetryableException_all(exc) == TRUE

\* classification of an exception raised by session.get, line 166
IsRetryableException(exc) == exc = "ClientError"

\* the task after fetch_post has left the semaphore block with `fetched` and
\* get_post_data has turned that into its return value
Finished(t, post_id, fetched) ==
    [t EXCEPT !.pc = "done", !.holds = FALSE, !.fetched = fetched,
              !.ret = get_post_data(post_id, fetched)]

\* the task after one more call of __delay_request, lines 129-131
Delayed(t) == [t EXCEPT !.pc = "delay", !.delays = @ + 1]

\* a loop that makes its first attempt whatever retry_attempts is
attempts_remain_at_least_once(t, cfg) ==
    t.attempt = 0 \/ t.attempt < cfg.retry_attempts

\* `for attempt in range(retry_attempts)`, line 148: the loop has a step left
attempts_remain(t, cfg) == t.attempt < cfg.retry_attempts

\* a fetch that starts its first pacing delay before it has a unit
fetch_post_delay_unbudgeted(p) ==
    /\ p \in DOMAIN tasks
    /\ tasks[p].pc = "wait_sem"
    /\ tasks' = [tasks EXCEPT ![p] = Delayed(@)]
    /\ UNCHANGED <<config, remote, session, semaphore, run, calls, exporter, disk>>

\* lines 142-143: the coroutine acquires a unit of the semaphore and starts
\* its first pacing delay.  asyncio wakes waiters in FIFO order; the model
\* lets any waiting task go first.
fetch_post_acquire(p) ==
    /\ p \in DOMAIN tasks
    /\ tasks[p].pc = "wait_sem"
    /\ semaphore > 0
    /\ semaphore' = acquire(semaphore)
    /\ tasks' = [tasks EXCEPT ![p] = Delayed([@ EXCEPT !.holds = TRUE])]
    /\ UNCHANGED <<config, remote, session, run, calls, exporter, disk>>

\* a pacing delay has elapsed and the for loop of line 148 takes its next
\* step: another session.get, or the exhaustion error of lines 170-171
fetch_post_delayed(p) ==
    /\ p \in DOMAIN tasks
    /\ tasks[p].pc = "delay"
    /\ LET t == tasks[p]
       IN  IF attempts_remain(t, config)
           THEN IF session.state = "open"
                THEN /\ tasks' = [tasks EXCEPT ![p] =
                                    [t EXCEPT !.pc = "request", !.requests = @ + 1]]
                     /\ UNCHANGED semaphore
                ELSE \* self.session is None or closed: session.get raises
                     /\ tasks' = [tasks EXCEPT ![p] =
                            Finished(t, p, [kind |-> "raise",
                                exc |-> [type |-> IF session.state = "None"
                                                  THEN "AttributeError"
                                                  ELSE "RuntimeError"]])]
                     /\ semaphore' = release(semaphore)
           ELSE /\ tasks' = [tasks EXCEPT ![p] =
                       Finished(t, p, [kind |-> "raise",
                                       exc |-> FetchPostError(p, MaxRetriesMessage)])]
                /\ semaphore' = release(semaphore)
    /\ UNCHANGED <<config, remote, session, run, calls, exporter, disk>>

\* the answer to one session.get, lines 150-168
fetch_post_response(p, resp) ==
    /\ p \in DOMAIN tasks
    /\ tasks[p].pc = "request"
    /\ resp \in remote
    /\ LET t == [tasks[p] EXCEPT !.hist = Append(@, resp)]
       IN  IF IsHttp(resp)
           THEN IF IsSuccessStatus(resp.status)
                THEN /\ tasks' = [tasks EXCEPT ![p] =
                            Finished(t, p, [kind |-> "return", text |-> resp.body])]
                     /\ semaphore' = release(semaphore)
                ELSE IF IsRetryableStatus(resp.status)
                THEN /\ tasks' = [tasks EXCEPT ![p] =
                            Delayed([t EXCEPT !.attempt = @ + 1])]
                     /\ UNCHANGED semaphore
                ELSE /\ tasks' = [tasks EXCEPT ![p] =
                            Finished(t, p, [kind |-> "raise",
                                exc |-> FetchPostError(p, HttpMessage(resp.status))])]
                     /\ semaphore' = release(semaphore)
           ELSE IF IsRetryableException(resp.exc)
                THEN /\ tasks' = [tasks EXCEPT ![p] =
                            Delayed([t EXCEPT !.attempt = @ + 1])]
                     /\ UNCHANGED semaphore
                ELSE /\ tasks' = [tasks EXCEPT ![p] =
                            Finished(t, p, [kind |-> "raise",
                                            exc |-> [type |-> resp.exc]])]
                     /\ semaphore' = release(semaphore)
    /\ UNCHANGED <<config, remote, session, run, calls, exporter, disk>>

----------------------------------------------------------------------------
(* cli.main and HabrParser.ingest_all, cli.py lines 22-25, parser.py 238-274 *)

\* SaveConfig.get_path, config.py line 94: the last component of the path
\* is "<file>.<extension>", where file stands for the part of save.file
\* after its last "/" (empty for save.file = "" or a name ending in "/")
get_path(cfg) == [file |-> cfg.file, extension |-> cfg.extension]

\* Path.suffix.lower() of Exporter.__init__, export.py line 46: the part of
\* the last component from its last dot on, and empty when that dot is the
\* first character of the component
suffix(path) ==
    IF path.file = "" THEN ""
    ELSE IF path.extension = "json" THEN ".json"
    ELSE IF path.extension = "csv" THEN ".csv"
    ELSE ".parquet"

\* the tasks gather creates for the batch at offset i, line 257
BatchTasks(cfg, i) == [p \in Range(batch_ids(cfg, i)) |-> NewTask]

\* gather handing the results back last task first instead of in batch order
gather_reversed(cfg, i, ts) ==
    LET ids == batch_ids(cfg, i)
    IN  [k \in DOMAIN ids |-> ts[ids[Len(ids) - k + 1]].ret]

\* the results asyncio.gather returns for the batch at offset i: one per
\* task, in the order of batch_ids whatever the order of completion, line 258
gather(cfg, i, ts) ==
    LET ids == batch_ids(cfg, i)
    IN  [k \in DOMAIN ids |-> ts[ids[k]].ret]

\* the skip policy with the flag ignored: only ok records pass
forwards_only_ok(cfg, result) == result.status = "ok"

\* the skip policy with the flag ignored the other way: every record passes
forwards_all(cfg, result) == TRUE

\* the skip policy of line 263
forwards(cfg, result) == ~cfg.skip \/ result.status = "ok"

\* a condition that also holds after the last batch of a range that is a
\* multiple of batch_size
more_batches_inclusive(cfg, i) == i + cfg.batch_size <= Len(all_post_ids(cfg))

\* the condition of the inter-batch delay, line 268
more_batches(cfg, i) == i + cfg.batch_size < Len(all_post_ids(cfg))

\* an exception that leaves ingest_all at once, as if the loop were not
\* inside try/finally
raised_without_finally(r, exc) == [r EXCEPT !.pc = "aexit", !.exc = exc]

\* an exception raised inside the try block of ingest_all, lines 249-272:
\* control passes to the finally block and the exception stays pending
raised_in_try(r, exc) == [r EXCEPT !.pc = "finally", !.exc = exc]

\* a save_chunk that is started and not awaited: the loop goes on to the
\* next result while the call is in progress
call_detached(r) == [r EXCEPT !.busy = @ + 1, !.j = @ + 1]

\* `await exporter.save_chunk(result)`, line 264: the call is in progress
\* and ingest_all is suspended until it ends
await_call(r) == [r EXCEPT !.pc = "save_chunk", !.busy = @ + 1]

\* HabrParser.__aenter__, lines 61-68
aenter ==
    /\ run.pc = "aenter"
    /\ session' = init_session(session)
    /\ run' = [run EXCEPT !.pc = "ingest"]
    /\ UNCHANGED <<config, remote, semaphore, tasks, calls, exporter, disk>>

\* ingest_all up to the first gather, lines 240-258
ingest_all_start ==
    /\ run.pc = "ingest"
    /\ exporter' = Exporter(suffix(get_path(config)), config.buffer_size)
    /\ session' = init_session(session)
    /\ IF Len(all_post_ids(config)) = 0
       THEN /\ run' = [run EXCEPT !.pc = "finally"]
            /\ UNCHANGED tasks
       ELSE /\ run' = [run EXCEPT !.pc = "gather", !.i = 0]
            /\ tasks' = BatchTasks(config, 0)
    /\ UNCHANGED <<config, remote, semaphore, calls, disk>>

\* asyncio.gather returns once every task of the batch is done; the results
\* are in the order of batch_ids, line 258
ingest_all_gathered ==
    /\ run.pc = "gather"
    /\ \A p \in DOMAIN tasks : tasks[p].pc = "done"
    /\ run' = [run EXCEPT !.pc = "forward", !.j = 1,
                          !.results = gather(config, run.i, tasks)]
    /\ tasks' = <<>>
    /\ UNCHANGED <<config, remote, session, semaphore, calls, exporter, disk>>

\* the pending exception of ingest_all once the finalize call of line 272
\* has ended: an exception of finalize replaces the one of the try block
finalize_ended(r, raised) ==
    [r EXCEPT !.pc = "aexit", !.exc = IF raised # "None" THEN raised ELSE @]

\* one step of the loop over the results, lines 260-264: a result that is
\* forwarded starts the save_chunk call, which runs to its first await; a
\* call that ends without awaiting anything is over within the step
ingest_all_forward ==
    /\ run.pc = "forward"
    /\ run.j <= Len(run.results)
    /\ LET result == run.results[run.j]
       IN  IF result.kind # "raise" /\ forwards(config, result.value)
           THEN LET m == Exporter_save_chunk(exporter, disk, result.value)
                IN  /\ exporter' = m.self
                    /\ disk' = m.disk
                    /\ calls' = Logged(calls, m.frame)
                    /\ run' = IF m.frame.at # "end" THEN await_call(run)
                              ELSE IF m.frame.raised # "None"
                              THEN raised_in_try(run, m.frame.raised)
                              ELSE [run EXCEPT !.j = @ + 1]
           ELSE /\ run' = [run EXCEPT !.j = @ + 1]
                /\ UNCHANGED <<calls, exporter, disk>>
    /\ UNCHANGED <<config, remote, session, semaphore, tasks>>

\* one step of the save_chunk call of line 264 while ingest_all waits for
\* it: the operation the call awaits is carried out, or the call resumes
\* and runs to its next await or to its end; a call that raises leaves the
\* loop.  fault: the file operation raises OSError.
ingest_all_saved(fault) ==
    /\ run.pc = "save_chunk"
    /\ fault => Faultable(exporter.backend, calls.active)
    /\ LET m == Exporter_step(exporter, disk, calls.active, fault)
       IN  /\ exporter' = m.self
           /\ disk' = m.disk
           /\ calls' = Stepped(calls, m.frame)
           /\ run' = IF m.frame.at # "end" THEN run
                     ELSE IF m.frame.raised # "None"
                     THEN raised_in_try([run EXCEPT !.busy = @ - 1], m.frame.raised)
                     ELSE [run EXCEPT !.pc = "forward", !.busy = @ - 1,
                                      !.j = @ + 1]
    /\ UNCHANGED <<config, remote, session, semaphore, tasks>>

\* after the last result of a batch, lines 266-269: the inter-batch delay
\* when identifiers remain, the end of the loop otherwise
ingest_all_batch_end ==
    /\ run.pc = "forward"
    /\ run.j > Len(run.results)
    /\ IF more_batches(config, run.i)
       THEN run' = [run EXCEPT !.pc = "batch_delay", !.delays = @ + 1]
       ELSE run' = [run EXCEPT !.pc = "finally"]
    /\ UNCHANGED <<config, remote, session, semaphore, tasks, calls, exporter, disk>>

\* the inter-batch delay has elapsed: the next batch is gathered
ingest_all_next_batch ==
    /\ run.pc = "batch_delay"
    /\ run' = [run EXCEPT !.pc = "gather", !.i = @ + config.batch_size,
                          !.results = <<>>, !.j = 0]
    /\ tasks' = BatchTasks(config, run.i + config.batch_size)
    /\ UNCHANGED <<config, remote, session, semaphore, calls, exporter, disk>>

\* the finally block, lines 270-271: the session is closed first
ingest_all_finally ==
    /\ run.pc = "finally"
    /\ session' = close_session(session)
    /\ run' = [run EXCEPT !.pc = "finalize"]
    /\ UNCHANGED <<config, remote, semaphore, tasks, calls, exporter, disk>>

\* the finally block, line 272: the finalize call starts and runs to its
\* first await, or to its end when it awaits nothing
ingest_all_finalize ==
    /\ run.pc = "finalize"
    /\ LET m == Exporter_finalize(exporter, disk)
       IN  /\ exporter' = m.self
           /\ disk' = m.disk
           /\ calls' = Logged(calls, m.frame)
           /\ run' = IF m.frame.at # "end"
                     THEN [run EXCEPT !.pc = "finalizing"]
                     ELSE finalize_ended(run, m.frame.raised)
    /\ UNCHANGED <<config, remote, session, semaphore, tasks>>

\* one step of the finalize call of line 272 while ingest_all waits for it;
\* an exception of finalize leaves ingest_all.  fault: the file operation
\* raises OSError; closed: a close that raises closes the file object
ingest_all_finalized(fault, closed) ==
    /\ run.pc = "finalizing"
    /\ fault => Faultable(exporter.backend, calls.active)
    /\ closed => ClosingFails(exporter, calls.active, fault)
    /\ LET m == Exporter_step_closing(exporter, disk, calls.active, fault, closed)
       IN  /\ exporter' = m.self
           /\ disk' = m.disk
           /\ calls' = Stepped(calls, m.frame)
           /\ run' = IF m.frame.at # "end" THEN run
                     ELSE finalize_ended(run, m.frame.raised)
    /\ UNCHANGED <<config, remote, session, semaphore, tasks>>

\* HabrParser.__aexit__, lines 70-87
aexit ==
    /\ run.pc = "aexit"
    /\ session' = close_session(session)
    /\ run' = [run EXCEPT !.pc = "done"]
    /\ UNCHANGED <<config, remote, semaphore, tasks, calls, exporter, disk>>

----------------------------------------------------------------------------
(* Configurations *)

\* PagesConfig.check_last_not_less_first, config.py lines 33-50
check_last_not_less_first(first, last) == ~(last < first /\ first < 1)

\* SaveConfig.validate_type, config.py lines 71-86
validate_type(extension) == extension \in {"parquet", "csv", "json"}

\* RequestConfig, config.py lines 229-235
RequestConfigAccepts(cfg) ==
    /\ cfg.max_concurrent_requests > 0
    /\ cfg.retry_attempts >= 0
    /\ cfg.batch_size > 0
    /\ cfg.buffer_size > 0

ParserConfigAccepts(cfg) ==
    /\ check_last_not_less_first(cfg.first, cfg.last)
    /\ validate_type(cfg.extension)
    /\ RequestConfigAccepts(cfg)

\* the settings of ParserConfig the pipeline reads, config.py lines 240-259
Config(first, last, batch_size, max_concurrent_requests, retry_attempts, skip, buffer_size, extension, file) ==
    [first |-> first, last |-> last, batch_size |-> batch_size,
     max_concurrent_requests |-> max_concurrent_requests,
     retry_attempts |-> retry_attempts, skip |-> skip,
     buffer_size |-> buffer_size, extension |-> extension, file |-> file]

NotRunning == [pc |-> "aenter", i |-> 0, results |-> <<>>, j |-> 0,
               exc |-> "None", delays |-> 0, busy |-> 0]

----------------------------------------------------------------------------
(* Specification of a whole run: `async with HabrParser(config) as parser: *)
(* await parser.ingest_all()`                                              *)

RunBatchSizes == 1..2
RunConcurrency == 1..2
RunRetries == 0..1
RunBufferSizes == 1..2
RunExtensions == {"json", "csv", "parquet"}

\* save.file: a name, and the empty name SaveConfig accepts as well
RunFiles == {"posts", ""}

\* the answers of the remote in a run
RunResponses == AllResponses

RunConfigs ==
    {cfg \in {Config(FirstId, last, b, c, r, skip, buf, ext, file) :
                last \in (FirstId - 1)..(FirstId + MaxIds - 1),
                b \in RunBatchSizes, c \in RunConcurrency, r \in RunRetries,
                skip \in BOOLEAN, buf \in RunBufferSizes, ext \in RunExtensions,
                file \in RunFiles} :
        ParserConfigAccepts(cfg)}

Init ==
    /\ config \in RunConfigs
    /\ remote = RunResponses
    /\ session = NoSession
    /\ semaphore = Semaphore(config)
    /\ tasks = <<>>
    /\ run = NotRunning
    /\ calls = NoCalls
    /\ exporter = Exporter(suffix(get_path(config)), config.buffer_size)
    /\ disk = NoFile

Next ==
    \/ aenter
    \/ ingest_all_start
    \/ \E p \in DOMAIN tasks : fetch_post_acquire(p)
    \/ \E p \in DOMAIN tasks : fetch_post_delayed(p)
    \/ \E p \in DOMAIN tasks : \E resp \in remote : fetch_post_response(p, resp)
    \/ ingest_all_gathered
    \/ ingest_all_forward
    \/ \E fault \in BOOLEAN : ingest_all_saved(fault)
    \/ ingest_all_batch_end
    \/ ingest_all_next_batch
    \/ ingest_all_finally
    \/ ingest_all_finalize
    \/ \E fault, closed \in BOOLEAN : ingest_all_finalized(fault, closed)
    \/ aexit

Spec == Init /\ [][Next]_vars

----------------------------------------------------------------------------
(* Specification of a whole run under a fair scheduler: the event loop     *)
(* runs a coroutine that can take a step, and every HTTP attempt, pacing   *)
(* delay and file write ends                                               *)

LiveConfigs ==
    {cfg \in RunConfigs :
        cfg.extension = "json" /\ cfg.buffer_size = 1 /\ ~cfg.skip}

\* the answers of the remote: a success, a retryable status, a terminal
\* status and an unexpected exception
LiveResponses ==
    {HttpResponse(HTTP_OK, "article"), HttpResponse(HTTP_TOO_MANY_REQUESTS, ""),
     HttpResponse(500, ""), Raised("TimeoutError")}

InitLive ==
    /\ config \in LiveConfigs
    /\ remote = LiveResponses
    /\ session = NoSession
    /\ semaphore = Semaphore(config)
    /\ tasks = <<>>
    /\ run = NotRunning
    /\ calls = NoCalls
    /\ exporter = Exporter(suffix(get_path(config)), config.buffer_size)
    /\ disk = NoFile

SpecLive == InitLive /\ [][Next]_vars /\ WF_vars(Next)

----------------------------------------------------------------------------
(* Specification of one gather over get_post_data, with every answer of    *)
(* the remote and retry_attempts up to MaxRetry                            *)

FetchConfigs ==
    {Config(FirstId, last, last - FirstId + 1, c, r, FALSE, 1, "json", "posts") :
        last \in FirstId..(FirstId + 1), c \in 1..2, r \in 0..MaxRetry}

InitFetch ==
    /\ config \in FetchConfigs
    /\ remote = AllResponses
    /\ session = init_session(NoSession)
    /\ semaphore = Semaphore(config)
    /\ tasks = BatchTasks(config, 0)
    /\ run = [NotRunning EXCEPT !.pc = "gather"]
    /\ calls = NoCalls
    /\ exporter = Exporter(suffix(get_path(config)), config.buffer_size)
    /\ disk = NoFile

NextFetch ==
    \/ \E p \in DOMAIN tasks : fetch_post_acquire(p)
    \/ \E p \in DOMAIN tasks : fetch_post_delayed(p)
    \/ \E p \in DOMAIN tasks : \E resp \in remote : fetch_post_response(p, resp)

SpecFetch == InitFetch /\ [][NextFetch]_vars

----------------------------------------------------------------------------
(* Specification of the Exporter facade driven directly by a caller that   *)
(* awaits every call: save_chunk and finalize calls in any order, one at a *)
(* time, for every extension and buffer_size                               *)

\* most finalize calls on one exporter
MaxFinalize == 2

ExporterSuffixes == {".json", ".csv", ".parquet", ".txt"}

\* the records offered to save_chunk: the k-th call gets a record of the
\* k-th identifier, with each of the field sets get_post_data returns: an
\* article, a not_found record, a record with an error text
SampleRecords(k) ==
    {get_post_data(FirstId + k - 1, fetched).value :
        fetched \in {[kind |-> "return", text |-> "article"],
                     [kind |-> "return", text |-> "stub"],
                     [kind |-> "raise",
                      exc |-> FetchPostError(FirstId + k - 1, HttpMessage(500))]}}

\* a save_chunk call on the facade starts and runs to its first await; the
\* caller awaits every call, so no other call is in progress
exporter_save_chunk(data) ==
    /\ calls.active.op = "None"
    /\ Len(calls.save_chunk) < MaxSaves
    /\ LET m == Exporter_save_chunk(exporter, disk, data)
       IN  /\ exporter' = m.self
           /\ disk' = m.disk
           /\ calls' = Logged(calls, m.frame)
    /\ UNCHANGED <<config, remote, session, semaphore, tasks, run>>

\* a finalize call on the facade starts and runs to its first await
exporter_finalize ==
    /\ calls.active.op = "None"
    /\ calls.finalize < MaxFinalize
    /\ LET m == Exporter_finalize(exporter, disk)
       IN  /\ exporter' = m.self
           /\ disk' = m.disk
           /\ calls' = Logged(calls, m.frame)
    /\ UNCHANGED <<config, remote, session, semaphore, tasks, run>>

\* one step of the call in progress: the operation it awaits is carried
\* out, or the call resumes and runs to its next await or to its end.
\* fault: the file operation raises OSError; closed: a close that raises
\* closes the file object
exporter_step(fault, closed) ==
    /\ calls.active.op # "None"
    /\ fault => Faultable(exporter.backend, calls.active)
    /\ closed => ClosingFails(exporter, calls.active, fault)
    /\ LET m == Exporter_step_closing(exporter, disk, calls.active, fault, closed)
       IN  /\ exporter' = m.self
           /\ disk' = m.disk
           /\ calls' = Stepped(calls, m.frame)
    /\ UNCHANGED <<config, remote, session, semaphore, tasks, run>>

InitExporter ==
    /\ config \in {[extension |-> ext, buffer_size |-> buf] :
                      ext \in ExporterSuffixes, buf \in 1..MaxBuffer}
    /\ remote = {}
    /\ session = NoSession
    /\ semaphore = 0
    /\ tasks = <<>>
    /\ run = [NotRunning EXCEPT !.pc = "exporter"]
    /\ calls = NoCalls
    /\ exporter = Exporter(config.extension, config.buffer_size)
    /\ disk = NoFile

NextExporter ==
    \/ \E data \in SampleRecords(Len(calls.save_chunk) + 1) :
          exporter_save_chunk(data)
    \/ exporter_finalize
    \/ \E fault, closed \in BOOLEAN : exporter_step(fault, closed)

SpecExporter == InitExporter /\ [][NextExporter]_vars

----------------------------------------------------------------------------
(* Properties of a run *)

\* the identifiers of the records given to save_chunk, in call order
ForwardedIds == [k \in DOMAIN calls.save_chunk |-> calls.save_chunk[k].id]

\* ingest_all has returned normally: the loop ended, the finally block ran
\* and no exporter call raised
RunCompleted == run.pc \in {"aexit", "done"} /\ run.exc = "None"

\* the statuses of the records given to save_chunk
ForwardedStatuses == {calls.save_chunk[k].status : k \in DOMAIN calls.save_chunk}

\* C1: with skip=false and first <= last, a run that no export failure
\* aborts gives save_chunk exactly last-first+1 records, exactly one for
\* every identifier of the range.
C1_OneRecordPerIdentifier ==
    (RunCompleted /\ ~config.skip /\ config.first <= config.last) =>
        /\ Len(calls.save_chunk) = config.last - config.first + 1
        /\ \A id \in config.first..config.last :
              Cardinality({k \in DOMAIN ForwardedIds : ForwardedIds[k] = id}) = 1

\* a completed run over three identifiers in batches of two whose fetches
\* ended in success, in a fetch_error and in an error
C1_Witness ==
    /\ RunCompleted /\ run.pc = "done" /\ ~config.skip
    /\ config.last = config.first + 2 /\ config.batch_size = 2
    /\ Len(calls.save_chunk) = 3
    /\ {"ok", "fetch_error", "error"} \subseteq ForwardedStatuses

\* C2 as stated: at the end of a run the identifiers given to save_chunk are
\* exactly first, first+1, ..., last.
C2_Original ==
    RunCompleted => ForwardedIds = all_post_ids(config)

\* C2 amended: the identifiers given to save_chunk are always strictly
\* increasing and inside [first,last]; with skip=false they are at every
\* moment first, first+1, ... without a gap, and all of first..last once the
\* run has completed; with skip=true only identifiers whose record is ok are
\* among them.
C2_ForwardedInOrder ==
    /\ \A k \in DOMAIN ForwardedIds :
          /\ ForwardedIds[k] \in config.first..config.last
          /\ k > 1 => ForwardedIds[k - 1] < ForwardedIds[k]
          /\ ~config.skip => ForwardedIds[k] = config.first + k - 1
          /\ config.skip => calls.save_chunk[k].status = "ok"
    /\ (RunCompleted /\ ~config.skip) => ForwardedIds = all_post_ids(config)

\* a completed run of two batches (two identifiers, then one), with two
\* concurrent fetches in the first batch, that gave save_chunk three records
C2_Witness ==
    /\ RunCompleted /\ ~config.skip
    /\ config.batch_size = 2 /\ config.max_concurrent_requests = 2
    /\ Len(all_post_ids(config)) = 3
    /\ ForwardedIds = all_post_ids(config)
    /\ run.delays = 1

\* the tasks that hold a unit of the concurrency budget
Holders == {p \in DOMAIN tasks : tasks[p].holds}

\* C3: at most max_concurrent_requests fetches hold a unit of the budget at
\* any moment, also when the batch is larger, and a fetch with an HTTP
\* request in flight holds a unit.
C3_ConcurrencyBound ==
    /\ Cardinality(Holders) <= config.max_concurrent_requests
    /\ semaphore >= 0
    /\ \A p \in DOMAIN tasks : tasks[p].pc = "request" => tasks[p].holds

\* a batch larger than the budget: one fetch has its request in flight while
\* another waits for a unit
C3_Witness ==
    /\ config.batch_size > config.max_concurrent_requests
    /\ \E p, q \in DOMAIN tasks :
          /\ tasks[p].pc = "request" /\ tasks[p].holds
          /\ tasks[q].pc = "wait_sem"
    /\ Cardinality(Holders) = config.max_concurrent_requests

\* the status a finished fetch must carry, from the answers that fetch
\* itself received: the last answer decides
StatusFor(hist) ==
    IF hist = <<>> THEN "fetch_error"
    ELSE LET last == hist[Len(hist)]
         IN  IF IsHttp(last)
             THEN IF last.status = 200
                  THEN IF last.body = "article" THEN "ok"
                       ELSE IF last.body = "stub" THEN "not_found"
                       ELSE "error"
                  ELSE "fetch_error"
             ELSE IF last.exc = "ClientError" THEN "fetch_error" ELSE "error"

\* C4: get_post_data always returns a record and never raises: a
\* FetchPostError gives status fetch_error, any other exception of fetch or
\* parse gives status error, both with the error text and the identifier;
\* the status of a fetch follows from its own answers alone, whatever its
\* siblings met; gather hands ingest_all records only, and no fetch outcome
\* aborts the run.
C4_FailuresContained ==
    /\ \A p \in DOMAIN tasks : tasks[p].pc = "done" =>
          LET t == tasks[p]
          IN  /\ t.ret.kind = "value"
              /\ t.ret.value.id = p
              /\ t.ret.value.status = StatusFor(t.hist)
              /\ (t.fetched.kind = "raise" /\ t.fetched.exc.type = "FetchPostError")
                    => /\ t.ret.value.status = "fetch_error"
                       /\ "error" \in DOMAIN t.ret.value
              /\ (t.fetched.kind = "raise" /\ t.fetched.exc.type # "FetchPostError")
                    => /\ t.ret.value.status = "error"
                       /\ t.ret.value.error = [msg |-> t.fetched.exc.type]
    /\ \A k \in DOMAIN run.results : run.results[k].kind = "value"
    /\ run.exc # "None" => calls.errors > 0

\* a batch of two whose first fetch failed with an unexpected exception and
\* whose second fetch succeeded all the same
C4_Witness ==
    /\ run.pc = "forward"
    /\ Len(run.results) = 2
    /\ run.results[1].kind = "value" /\ run.results[1].value.status = "error"
    /\ run.results[2].kind = "value" /\ run.results[2].value.status = "ok"

\* the budget is whole again: every unit is free
BudgetWhole == semaphore = config.max_concurrent_requests

\* C8: fetch_post gives its unit back on every way out, so free units plus
\* holders always make max_concurrent_requests, a finished fetch holds
\* nothing, and whenever no fetch is in progress (in particular at the end
\* of a run) all max_concurrent_requests units are free.
C8_BudgetReleased ==
    /\ semaphore + Cardinality(Holders) = config.max_concurrent_requests
    /\ \A p \in DOMAIN tasks : tasks[p].pc \in {"done", "wait_sem"} => ~tasks[p].holds
    /\ (\A p \in DOMAIN tasks : tasks[p].pc = "done") => BudgetWhole
    /\ run.pc \in {"finally", "aexit", "done"} => BudgetWhole

\* the end of a run whose three fetches left through a terminal status,
\* through exhausted attempts and through an unexpected exception
C8_Witness ==
    /\ run.pc = "done" /\ BudgetWhole
    /\ \E a, b, c \in DOMAIN calls.save_chunk :
          /\ calls.save_chunk[a].status = "fetch_error"
          /\ calls.save_chunk[a].error.status_code = HttpMessage(500)
          /\ calls.save_chunk[b].status = "fetch_error"
          /\ calls.save_chunk[b].error.status_code = MaxRetriesMessage
          /\ calls.save_chunk[c].status = "error"
          /\ calls.save_chunk[c].error = [msg |-> "TimeoutError"]

----------------------------------------------------------------------------
(* Properties of one fetch, under SpecFetch *)

\* every answer task t received is `resp`
AllAnswers(t, resp) == t.hist # <<>> /\ \A k \in DOMAIN t.hist : t.hist[k] = resp

\* C5 as stated: of the statuses of the attempts of a fetch, 200 ends the
\* fetch with success, 429 and 503 are followed by a pacing delay and
\* another attempt while attempts remain, and every other status ends the
\* fetch with a failure.
C5_StatusClassification ==
    \A p \in DOMAIN tasks :
        LET t == tasks[p]
        IN  \A k \in DOMAIN t.hist :
                IsHttp(t.hist[k]) =>
                    IF t.hist[k].status = 200
                    THEN k = Len(t.hist) /\ t.pc = "done" /\ t.fetched.kind = "return"
                    ELSE IF t.hist[k].status \in {429, 503}
                    THEN k < config.retry_attempts =>
                            \/ k < Len(t.hist)
                            \/ t.pc \in {"delay", "request"}
                    ELSE k = Len(t.hist) /\ t.pc = "done" /\ t.fetched.kind = "raise"

\* C6 as stated: with retry_attempts = 3 and a remote that always answers
\* 500, a fetch makes exactly 3 HTTP attempts and ends in a fetch_error.
C6_Original ==
    \A p \in DOMAIN tasks :
        (config.retry_attempts = 3 /\ tasks[p].pc = "done"
            /\ AllAnswers(tasks[p], HttpResponse(500, ""))) =>
                /\ tasks[p].requests = 3
                /\ tasks[p].ret.value.status = "fetch_error"

\* C6 amended: with retry_attempts = 3 and a remote that always answers 500,
\* a fetch makes exactly 1 HTTP attempt, and then returns a record with
\* status fetch_error that names HTTP 500.
C6_TerminalAfterOneAttempt ==
    \A p \in DOMAIN tasks :
        (config.retry_attempts = 3 /\ tasks[p].pc = "done"
            /\ AllAnswers(tasks[p], HttpResponse(500, ""))) =>
                /\ tasks[p].requests = 1
                /\ Len(tasks[p].hist) = 1
                /\ tasks[p].ret.kind = "value"
                /\ tasks[p].ret.value.status = "fetch_error"
                /\ tasks[p].ret.value.error.status_code = HttpMessage(500)

\* a finished fetch with retry_attempts = 3 whose remote answered 500
C6_Witness ==
    \E p \in DOMAIN tasks :
        /\ config.retry_attempts = 3 /\ tasks[p].pc = "done"
        /\ AllAnswers(tasks[p], HttpResponse(500, ""))

\* k-1 answers 429 and then a 200 with the given body
RateLimitedThenOk(k, body) ==
    [n \in 1..k |-> IF n < k THEN HttpResponse(429, "") ELSE HttpResponse(200, body)]

\* C7: a fetch whose attempts 1..k-1 were answered 429 and whose attempt k
\* was answered 200 (k <= retry_attempts) returns that body after exactly k
\* HTTP attempts and exactly k pacing delays, and the record's status is the
\* parser's.
C7_RetryThenSuccess ==
    \A p \in DOMAIN tasks : \A k \in 1..config.retry_attempts : \A body \in Bodies :
        (tasks[p].pc = "done" /\ tasks[p].hist = RateLimitedThenOk(k, body)) =>
            /\ tasks[p].fetched = [kind |-> "return", text |-> body]
            /\ tasks[p].requests = k
            /\ tasks[p].delays = k
            /\ tasks[p].ret.kind = "value"
            /\ parse_post(body).kind = "return"
                  => tasks[p].ret.value.status = parse_post(body).value.status

\* a fetch that succeeded on its third and last attempt after two 429
C7_Witness ==
    \E p \in DOMAIN tasks :
        /\ config.retry_attempts = 3 /\ tasks[p].pc = "done"
        /\ tasks[p].hist = RateLimitedThenOk(3, "article")
        /\ tasks[p].ret.value.status = "ok"

\* the answers the retry loop goes on after: status 429, status 530 and a
\* client error
IsRetryableAnswer(resp) ==
    IF IsHttp(resp) THEN resp.status \in {429, 530} ELSE resp.exc = "ClientError"

\* every attempt the configuration allows was made and got a retryable answer
Exhausted(t) ==
    /\ t.pc = "done"
    /\ Len(t.hist) = config.retry_attempts
    /\ \A k \in DOMAIN t.hist : IsRetryableAnswer(t.hist[k])

\* the status or reason of an answer, as an error message names it
Observed(resp) ==
    IF IsHttp(resp) THEN HttpMessage(resp.status) ELSE [text |-> resp.exc]

\* C20 as stated: a fetch whose retry_attempts >= 1 attempts all ended with
\* a retryable answer raises a FetchPostError that carries the identifier
\* and the status or reason of the last attempt, and get_post_data returns
\* a fetch_error record for it.
C20_ExhaustionCarriesLastStatus ==
    \A p \in DOMAIN tasks :
        LET t == tasks[p]
        IN  (Exhausted(t) /\ config.retry_attempts >= 1) =>
                /\ t.fetched.kind = "raise"
                /\ t.fetched.exc.type = "FetchPostError"
                /\ t.fetched.exc.post_id = p
                /\ t.fetched.exc.status_code = Observed(t.hist[Len(t.hist)])
                /\ t.ret.kind = "value"
                /\ t.ret.value.status = "fetch_error"

\* C20 amended: a fetch whose retry_attempts attempts all ended with a
\* retryable answer (429, 530 or a client error) has made exactly
\* retry_attempts requests and raises a FetchPostError that carries the
\* identifier and the fixed reason "Max retries exceeded", whatever the last
\* answer was; get_post_data returns for it a fetch_error record with the
\* identifier and the text of that error, and raises nothing.
C20_ExhaustionRaisesMaxRetries ==
    \A p \in DOMAIN tasks :
        LET t == tasks[p]
        IN  Exhausted(t) =>
                /\ t.requests = config.retry_attempts
                /\ t.fetched = [kind |-> "raise",
                                exc |-> FetchPostError(p, MaxRetriesMessage)]
                /\ t.ret = [kind |-> "value",
                            value |-> [id |-> p, status |-> "fetch_error",
                                       error |-> str(FetchPostError(p, MaxRetriesMessage))]]
                /\ ~t.holds

\* a finished fetch with retry_attempts = 3 whose attempts were answered
\* 429, 530 and with a client error
C20_Witness ==
    \E p \in DOMAIN tasks :
        /\ config.retry_attempts = 3 /\ tasks[p].pc = "done"
        /\ tasks[p].hist = <<HttpResponse(429, ""), HttpResponse(530, ""),
                             Raised("ClientError")>>
        /\ tasks[p].ret.value.status = "fetch_error"

\* the number of attempts of the fetch that ended with a retryable answer
RetryableAnswers(t) ==
    Cardinality({k \in DOMAIN t.hist : IsRetryableAnswer(t.hist[k])})

\* C25: a fetch takes its budget unit, then applies one pacing delay, and
\* only then issues its first request; from the first delay on the number of
\* its delays is 1 plus the number of its attempts that ended with a
\* retryable answer, so an exhausted fetch has applied retry_attempts + 1
\* delays, the last one after its final attempt; a fetch that is in a delay
\* or has a request in flight holds its unit.
C25_PacingDelays ==
    \A p \in DOMAIN tasks :
        LET t == tasks[p]
        IN  /\ t.pc = "wait_sem" =>
                  ~t.holds /\ t.delays = 0 /\ t.requests = 0
            /\ t.pc \in {"delay", "request"} => t.holds
            /\ t.pc \in {"delay", "request", "done"} =>
                  t.delays = 1 + RetryableAnswers(t)
            /\ t.pc = "request" => t.delays = t.requests
            /\ t.requests <= t.delays
            /\ Exhausted(t) => t.delays = config.retry_attempts + 1

\* a fetch with retry_attempts = 3 that was answered 429 three times: it
\* has applied four delays and made three requests
C25_Witness ==
    \E p \in DOMAIN tasks :
        /\ config.retry_attempts = 3 /\ tasks[p].pc = "done"
        /\ AllAnswers(tasks[p], HttpResponse(429, ""))
        /\ tasks[p].requests = 3 /\ tasks[p].delays = 4

\* the answer is an exception that is neither a client error nor a
\* FetchPostError
IsUnexpected(resp) == ~IsHttp(resp) /\ resp.exc # "ClientError"

\* C27: an attempt that ends with an exception that is neither a client
\* error nor a FetchPostError is the last attempt of its fetch: the fetch is
\* over at once, with no further request and no further delay, it holds no
\* unit, and get_post_data returns a record with status error (not
\* fetch_error) that carries the identifier and the exception's text.
C27_UnexpectedNotRetried ==
    \A p \in DOMAIN tasks :
        LET t == tasks[p]
        IN  \A k \in DOMAIN t.hist :
                IsUnexpected(t.hist[k]) =>
                    /\ k = Len(t.hist)
                    /\ t.pc = "done"
                    /\ ~t.holds
                    /\ t.requests = k
                    /\ t.delays = k
                    /\ t.fetched = [kind |-> "raise",
                                    exc |-> [type |-> t.hist[k].exc]]
                    /\ t.ret = [kind |-> "value",
                                value |-> [id |-> p, status |-> "error",
                                           error |-> [msg |-> t.hist[k].exc]]]

\* a fetch with retry_attempts = 3 whose first attempt was answered 429 and
\* whose second attempt timed out: it ended there
C27_Witness ==
    \E p \in DOMAIN tasks :
        /\ config.retry_attempts = 3 /\ tasks[p].pc = "done"
        /\ tasks[p].hist = <<HttpResponse(429, ""), Raised("TimeoutError")>>
        /\ tasks[p].ret.value.status = "error"
        /\ tasks[p].delays = 2

\* C28: retry_attempts = 0 is accepted by the validation of the request
\* settings, and with it a fetch issues no HTTP request: it takes its unit,
\* applies one pacing delay and raises the exhaustion error, and
\* get_post_data returns a fetch_error record for the identifier.
C28_ZeroAttempts ==
    config.retry_attempts = 0 =>
        /\ RequestConfigAccepts(config)
        /\ \A p \in DOMAIN tasks :
              LET t == tasks[p]
              IN  /\ t.requests = 0 /\ t.hist = <<>>
                  /\ t.pc \in {"wait_sem", "delay", "done"}
                  /\ t.pc = "delay" => t.holds /\ t.delays = 1
                  /\ t.pc = "done" =>
                        /\ t.delays = 1
                        /\ ~t.holds
                        /\ t.fetched.kind = "raise"
                        /\ t.fetched.exc.type = "FetchPostError"
                        /\ t.fetched.exc.post_id = p
                        /\ t.ret.kind = "value"
                        /\ t.ret.value.id = p
                        /\ t.ret.value.status = "fetch_error"

\* two fetches with retry_attempts = 0 and a budget of one, both over
\* without a request
C28_Witness ==
    /\ config.retry_attempts = 0 /\ config.max_concurrent_requests = 1
    /\ Cardinality(DOMAIN tasks) = 2
    /\ \A p \in DOMAIN tasks :
          /\ tasks[p].pc = "done" /\ tasks[p].requests = 0
          /\ tasks[p].ret.value.status = "fetch_error"

----------------------------------------------------------------------------
(* Properties of the exporter, under SpecExporter *)

\* the content is `[`, elements separated by single commas, `]`
IsJsonArray(content) ==
    /\ Len(content) >= 2
    /\ content[1] = LBRACKET
    /\ content[Len(content)] = RBRACKET
    /\ LET inner == SubSeq(content, 2, Len(content) - 1)
       IN  \/ inner = <<>>
           \/ /\ Len(inner) % 2 = 1
              /\ \A k \in DOMAIN inner :
                    IF k % 2 = 1 THEN inner[k].tok = "obj" ELSE inner[k] = COMMA

\* the elements of a well-formed array, as a JSON parser returns them
JsonArrayItems(content) ==
    LET inner == SubSeq(content, 2, Len(content) - 1)
    IN  [k \in 1..((Len(inner) + 1) \div 2) |-> inner[2 * k - 1].val]

\* no call on the exporter is in progress: every call made has ended
Idle == calls.active.op = "None"

\* C9: after N >= 1 save_chunk calls and finalize on the JSON backend, none
\* of which raised, the file is one well-formed JSON array of the N records
\* in save order: one opening bracket, a comma before every element but the
\* first, none after the last.
C9_JsonWellFormed ==
    (exporter.backend.cls = "JsonExporter" /\ calls.finalize = 1 /\ Idle
        /\ calls.errors = 0 /\ Len(calls.save_chunk) >= 1) =>
            /\ disk.exists
            /\ IsJsonArray(disk.content)
            /\ JsonArrayItems(disk.content) = calls.save_chunk
            /\ Cardinality({k \in DOMAIN disk.content : disk.content[k] = LBRACKET}) = 1
            /\ Len(disk.content) = 2 * Len(calls.save_chunk) + 1

\* three records through a JSON backend with buffer_size 2: one flush at the
\* second record, the third left for finalize
C9_Witness ==
    /\ exporter.backend.cls = "JsonExporter" /\ exporter.buffer_size = 2
    /\ calls.finalize = 1 /\ calls.errors = 0 /\ Idle
    /\ Len(calls.save_chunk) = 3
    /\ Len(disk.content) = 7

\* C10 as stated: finalize on a fresh exporter does not raise and leaves an
\* empty JSON array for .json, an empty file for .csv, no file for .parquet.
C10_FinalizeWithoutData ==
    (calls.save_chunk = <<>> /\ calls.finalize = 1 /\ Idle) =>
        /\ calls.last.raised = "None"
        /\ exporter.extension = ".json" =>
              /\ disk.exists
              /\ IsJsonArray(disk.content)
              /\ JsonArrayItems(disk.content) = <<>>
        /\ exporter.extension = ".csv" => disk.exists /\ disk.content = <<>>
        /\ exporter.extension = ".parquet" => ~disk.exists

\* C11 as stated: for each of the three backends, a finalize call that
\* follows a finalize call does not raise and leaves the file exactly as the
\* earlier finalize left it: no step of the later call raises or changes
\* the file.
C11_FinalizeIdempotent ==
    [][(/\ exporter.backend.cls \in {"JsonExporter", "CsvExporter", "ParquetExporter"}
        /\ calls'.prev = [op |-> "finalize", raised |-> "None"]
        /\ calls'.last.op = "finalize")
            => (calls'.last.raised = "None" /\ disk' = disk)]_vars

\* C13 as stated: after N >= 1 records saved through the Parquet backend
\* and finalize, none of which raised, the file holds all N records, one row
\* per record in save order: a flush adds its rows to those of the earlier
\* flushes.
C13_ParquetHoldsAll ==
    (exporter.backend.cls = "ParquetExporter" /\ calls.finalize = 1 /\ Idle
        /\ calls.last.op = "finalize"
        /\ calls.errors = 0 /\ Len(calls.save_chunk) >= 1) =>
            /\ disk.exists
            /\ Len(disk.content) = Len(calls.save_chunk)
            /\ \A k \in DOMAIN calls.save_chunk :
                  \A f \in DOMAIN calls.save_chunk[k] :
                      /\ k \in DOMAIN disk.content
                      /\ f \in DOMAIN disk.content[k]
                      /\ disk.content[k][f] = calls.save_chunk[k][f]

\* the header lines of a CSV file
CsvHeaders(content) == {k \in DOMAIN content : "header" \in DOMAIN content[k]}

\* the field names of the first n records saved
FieldsOfFirst(n) == UNION {DOMAIN calls.save_chunk[k] : k \in 1..n}

\* a buffer flush has taken place: the buffer filled up, or finalize ran
\* with records saved
CsvFlushed ==
    /\ Len(calls.save_chunk) >= 1
    /\ Len(calls.save_chunk) >= exporter.buffer_size \/ calls.finalize >= 1

\* C14 as stated: the CSV backend writes no header before the first buffer
\* flush, and from the first flush on the file starts with a header that
\* holds the union of the field names of the first min(N, B) records.
C14_HeaderAtFirstFlush ==
    (exporter.backend.cls = "CsvExporter" /\ calls.errors = 0 /\ Idle) =>
        IF CsvFlushed
        THEN /\ disk.exists /\ disk.content # <<>>
             /\ disk.content[1] =
                   [header |-> FieldsOfFirst(Min(Len(calls.save_chunk),
                                                 exporter.buffer_size))]
        ELSE CsvHeaders(disk.content) = {}

\* the line holds the cells of the record: every field of the record under
\* its own column, every other column empty
IsCsvRowOf(line, data) ==
    /\ "row" \in DOMAIN line
    /\ DOMAIN data \subseteq DOMAIN line.row
    /\ \A f \in DOMAIN line.row :
          line.row[f] = IF f \in DOMAIN data THEN data[f] ELSE ""

\* C15: after N >= 1 records saved through the CSV backend and finalize,
\* none of which raised, the file holds exactly one header line, as its
\* first line, followed by exactly N data lines, the k-th of the k-th record
\* saved; the header is the one written with the first record, so no record
\* saved later (after the first flush in particular) adds a column to it.
C15_CsvOneHeader ==
    (exporter.backend.cls = "CsvExporter" /\ calls.errors = 0 /\ Idle
        /\ Len(calls.save_chunk) >= 1) =>
            /\ disk.exists
            /\ CsvHeaders(disk.content) = {1}
            /\ disk.content[1] = [header |-> DOMAIN calls.save_chunk[1]]
            /\ calls.finalize >= 1 =>
                  /\ Len(disk.content) = Len(calls.save_chunk) + 1
                  /\ \A k \in DOMAIN calls.save_chunk :
                        IsCsvRowOf(disk.content[k + 1], calls.save_chunk[k])

\* three records through a CSV backend with buffer_size 2: the first flush
\* comes with the second record, and the third record, saved after it,
\* brings field names the header does not have
C15_Witness ==
    /\ exporter.backend.cls = "CsvExporter" /\ exporter.buffer_size = 2
    /\ calls.finalize = 1 /\ calls.errors = 0 /\ Idle
    /\ Len(calls.save_chunk) = 3
    /\ calls.save_chunk[1].status = "not_found"
    /\ calls.save_chunk[2].status = "not_found"
    /\ calls.save_chunk[3].status = "ok"
    /\ Len(disk.content) = 4
    /\ ~(DOMAIN calls.save_chunk[3] \subseteq disk.content[1].header)

\* the number of items the backend holds in memory: JSON fragments, CSV
\* lines or Parquet records
Pending(backend) ==
    IF backend.cls = "None" THEN 0
    ELSE IF backend.cls = "ParquetExporter" THEN Len(backend.data_chunks)
    ELSE Len(backend.buffer)

\* C17 as stated: for each backend and any sequence of save_chunk calls, the
\* buffer never holds more than buffer_size items, also while a record is
\* being added; it holds strictly fewer than buffer_size items after every
\* save_chunk that returned, and after a finalize that returned it is empty.
C17_BufferBounded ==
    /\ Pending(exporter.backend) <= exporter.buffer_size
    /\ (Idle /\ calls.last = [op |-> "save_chunk", raised |-> "None"]) =>
          Pending(exporter.backend) < exporter.buffer_size
    /\ (Idle /\ calls.last = [op |-> "finalize", raised |-> "None"]) =>
          Pending(exporter.backend) = 0

\* the backend class of a supported extension
BackendOf(extension) ==
    IF extension = ".json" THEN "JsonExporter"
    ELSE IF extension = ".csv" THEN "CsvExporter"
    ELSE "ParquetExporter"

\* C18: the facade has no backend until the first save_chunk; from the first
\* save_chunk on it has the one backend of its extension, which keeps what
\* the earlier calls left in it (the same instance serves every call); with
\* an unrecognized extension construction and finalize do not raise, no
\* backend and no file are ever created, and every save_chunk, the first
\* included, raises ValueError.
C18_LazySingleBackend ==
    /\ calls.save_chunk = <<>> =>
          /\ exporter.backend = NoBackend
          /\ calls.errors = 0
          /\ ~disk.exists
    /\ (calls.save_chunk # <<>> /\ exporter.extension \in {".json", ".csv", ".parquet"}) =>
          /\ exporter.backend.cls = BackendOf(exporter.extension)
          /\ (calls.errors = 0 /\ calls.finalize = 0 /\ Idle) =>
                /\ Pending(exporter.backend) =
                      Len(calls.save_chunk) % exporter.buffer_size
                /\ exporter.backend.cls = "JsonExporter" =>
                      ~exporter.backend.first_item /\ exporter.backend.file = "open"
                /\ exporter.backend.cls = "CsvExporter" =>
                      /\ exporter.backend.fieldnames = FieldsOfFirst(Len(calls.save_chunk))
                      /\ exporter.backend.header_written
    /\ exporter.extension \notin {".json", ".csv", ".parquet"} =>
          /\ exporter.backend = NoBackend
          /\ ~disk.exists
          /\ calls.errors = Len(calls.save_chunk)
          /\ calls.last.op = "save_chunk" => calls.last.raised = "ValueError"
          /\ calls.last.op = "finalize" => calls.last.raised = "None"

\* an exporter for an unrecognized extension whose first and second
\* save_chunk both raised
C18_Witness ==
    /\ exporter.extension = ".txt"
    /\ Len(calls.save_chunk) = 2 /\ calls.errors = 2 /\ Idle
    /\ calls.last = [op |-> "save_chunk", raised |-> "ValueError"]
    /\ exporter.backend = NoBackend

----------------------------------------------------------------------------
(* Properties of the end of a run, under Spec *)

\* the exception of a save_chunk call is on its way to the caller of
\* ingest_all
Aborted == run.exc # "None"

\* the number of exporter calls that raised, as the log of the last call and
\* of the call before it shows
RaisedCalls ==
    (IF calls.prev.raised # "None" THEN 1 ELSE 0)
        + (IF calls.last.raised # "None" THEN 1 ELSE 0)

\* C12: in a run of ingest_all, finalize is not called while the batch loop
\* runs and has been called exactly once when ingest_all is left, as the
\* last call on the exporter, both when the loop ended and when an
\* exception of save_chunk aborted it; in that case no further record is
\* saved and an exception leaves ingest_all: the one of save_chunk when
\* finalize returned, the one of finalize when finalize raised as well.
C12_FinalizeExactlyOnce ==
    /\ run.pc \in {"aenter", "ingest", "gather", "forward", "save_chunk",
                  "batch_delay", "finally", "finalize"}
          => calls.finalize = 0
    /\ run.pc = "finalizing" => calls.active.op = "finalize"
    /\ run.pc \in {"finalizing", "aexit", "done"} =>
          /\ calls.finalize = 1
          /\ calls.last.op = "finalize"
          /\ calls.prev.op \in {"None", "save_chunk"}
          /\ calls.errors = RaisedCalls
          /\ calls.prev.raised # "None" =>
                Aborted /\ (calls.last.raised = "None" => run.exc = calls.prev.raised)
    /\ run.pc \in {"aexit", "done"} =>
          /\ calls.active.op = "None"
          /\ calls.last.raised = "None" => exporter.executor_shutdown
          /\ calls.last.raised # "None" => run.exc = calls.last.raised
          /\ calls.errors > 0 <=> Aborted
    /\ (calls.errors >= 1 /\ run.pc \in {"finally", "finalize"}) =>
          /\ calls.errors = 1
          /\ calls.last = [op |-> "save_chunk", raised |-> run.exc]

\* a run whose second save_chunk raised while a third record of the batch
\* waited: finalize was called once and the exception left ingest_all
C12_Witness ==
    /\ run.pc = "done" /\ run.exc = "OSError"
    /\ Len(calls.save_chunk) = 2 /\ run.j = 1 /\ run.i = 1
    /\ Len(all_post_ids(config)) = 3
    /\ calls.finalize = 1 /\ calls.errors = 1
    /\ calls.prev = [op |-> "save_chunk", raised |-> "OSError"]
    /\ calls.last = [op |-> "finalize", raised |-> "None"]

\* C16: one step of the loop over the results of a batch: with skip set, the
\* record is given to save_chunk if and only if its status is ok, and a
\* record with any other status leaves the exporter untouched; with skip not
\* set the record is given to save_chunk whatever its status.
C16_SkipPolicy ==
    [][(run.pc = "forward" /\ run.j <= Len(run.results)) =>
          LET result == run.results[run.j].value
          IN  IF config.skip /\ result.status # "ok"
              THEN /\ calls' = calls /\ exporter' = exporter /\ disk' = disk
                   /\ run'.j = run.j + 1
              ELSE calls'.save_chunk = Append(calls.save_chunk, result)]_vars

\* a completed run with skip set over three identifiers: the first record
\* was not ok and was dropped, the second was ok and was saved, the third
\* was a fetch_error and was dropped
C16_Witness ==
    /\ config.skip /\ RunCompleted /\ run.pc = "done"
    /\ config.batch_size = 2 /\ Len(all_post_ids(config)) = 3
    /\ Len(run.results) = 1
    /\ run.results[1].value.status = "fetch_error"
    /\ Len(calls.save_chunk) = 1
    /\ calls.save_chunk[1].id = config.first + 1
    /\ calls.save_chunk[1].status = "ok"

\* C19: in a run through the context manager and ingest_all the session is
\* created once, by __aenter__, and closed once, by the finally block of
\* ingest_all: the init_session of ingest_all creates no second session, the
\* close_session of __aexit__ closes nothing, and a fetch is in progress or
\* has a request in flight only while the session is open.
C19_SessionOnce ==
    /\ session.created <= 1 /\ session.closed <= 1
    /\ run.pc = "aenter" => session = NoSession
    /\ run.pc \in {"ingest", "gather", "forward", "save_chunk", "batch_delay",
                  "finally"} =>
          session = [state |-> "open", created |-> 1, closed |-> 0]
    /\ run.pc \in {"finalize", "finalizing", "aexit", "done"} =>
          session = [state |-> "closed", created |-> 1, closed |-> 1]
    /\ \A p \in DOMAIN tasks :
          /\ session.state = "open"
          /\ tasks[p].pc = "request" => session.closed = 0

\* the end of a run of two batches in which requests were made and answered
C19_Witness ==
    /\ run.pc = "done" /\ run.delays = 1
    /\ session = [state |-> "closed", created |-> 1, closed |-> 1]
    /\ \E k \in DOMAIN calls.save_chunk : calls.save_chunk[k].status = "ok"
    /\ calls.finalize = 1

----------------------------------------------------------------------------
(* Properties of the configuration and of the batch loop, under Spec *)

\* the values of first and last the validator is tried on
PagesInputs == (FirstId - 3)..(FirstId + MaxIds)

\* C21 as stated: a pages setting (first, last) is accepted if and only if
\* last >= first, so the range of a run is never empty or inverted.
C21_PagesValidated ==
    /\ \A first, last \in PagesInputs :
          check_last_not_less_first(first, last) <=> last >= first
    /\ config.first <= config.last
    /\ run.pc # "aenter" => Len(all_post_ids(config)) >= 1

\* the identifiers of the batch at the current offset
CurrentBatch ==
    (config.first + run.i)..Min(config.first + run.i + config.batch_size - 1,
                                config.last)

\* C22: the batches are the consecutive slices of at most batch_size
\* identifiers of [first,last] and are processed one after another: the
\* fetches in progress are those of the current batch alone, a batch starts
\* only when no fetch of the batch before is left, while a fetch of the
\* current batch is unfinished no record of that batch (or of a later one)
\* has been given to the exporter, and a run that completes has gone
\* through the whole range.
C22_BatchesInSequence ==
    /\ run.i % config.batch_size = 0
    /\ DOMAIN tasks # {} =>
          /\ run.pc = "gather"
          /\ DOMAIN tasks = CurrentBatch
          /\ Cardinality(DOMAIN tasks) <= config.batch_size
    /\ run.pc = "gather" =>
          \A k \in DOMAIN ForwardedIds : ForwardedIds[k] < config.first + run.i
    /\ run.pc = "forward" =>
          /\ DOMAIN tasks = {}
          /\ Len(run.results) = Cardinality(CurrentBatch)
          /\ \A k \in DOMAIN run.results :
                run.results[k].value.id = config.first + run.i + k - 1
          /\ \A k \in DOMAIN ForwardedIds :
                ForwardedIds[k] < config.first + run.i + run.j - 1
    /\ \A k \in DOMAIN ForwardedIds :
          ForwardedIds[k] < config.first + run.i + config.batch_size
    /\ (RunCompleted /\ config.first <= config.last) =>
          config.first + run.i + config.batch_size > config.last

\* the second batch of a run in progress: both records of the first batch
\* have been saved, the one fetch of the second batch has its request in
\* flight
C22_Witness ==
    /\ run.pc = "gather" /\ run.i = 2 /\ config.batch_size = 2
    /\ ~config.skip /\ Len(all_post_ids(config)) = 3
    /\ DOMAIN tasks = {config.last}
    /\ tasks[config.last].pc = "request"
    /\ ForwardedIds = <<config.first, config.first + 1>>

\* ceil(n / b) for n >= 0 and b >= 1
CeilDiv(n, b) == (n + b - 1) \div b

\* the number of batches of the run
BatchCount == CeilDiv(Len(all_post_ids(config)), config.batch_size)

\* C23: a run over n >= 1 identifiers with batch size b that completes has
\* applied exactly ceil(n/b) - 1 inter-batch delays (none for an empty
\* range): during the run one delay has been applied after each batch that
\* is behind, and none after the last batch, also when n is a multiple of b.
C23_InterBatchDelays ==
    /\ run.pc \in {"gather", "forward", "save_chunk"} =>
          run.delays = run.i \div config.batch_size
    /\ run.pc = "batch_delay" =>
          /\ run.delays = run.i \div config.batch_size + 1
          /\ run.delays < BatchCount
    /\ RunCompleted =>
          run.delays = IF BatchCount = 0 THEN 0 ELSE BatchCount - 1
    /\ run.delays <= BatchCount

\* a completed run over two identifiers in batches of one: the range is a
\* multiple of the batch size, and one delay was applied
C23_Witness ==
    /\ RunCompleted /\ run.pc = "done"
    /\ Len(all_post_ids(config)) = 2 /\ config.batch_size = 1
    /\ run.delays = 1 /\ run.i = 1

\* C24: at most one exporter call is in progress at any moment: save_chunk
\* is in progress only while ingest_all is suspended in it, a save_chunk
\* starts only when none is in progress, no fetch is alive while one is in
\* progress (the batch has been gathered), and finalize starts only when
\* every save_chunk has ended.
C24_OneExporterCall ==
    /\ run.busy \in {0, 1}
    /\ run.busy = 1 <=> run.pc = "save_chunk"
    /\ run.pc = "save_chunk" =>
          /\ DOMAIN tasks = {}
          /\ calls.finalize = 0
          /\ calls.last.op = "save_chunk"
          /\ calls.save_chunk[Len(calls.save_chunk)] = run.results[run.j].value
    /\ run.pc \in {"forward", "finally", "finalize", "finalizing", "aexit",
                  "done"} => run.busy = 0
    /\ calls.active.op = "save_chunk" <=> run.pc = "save_chunk"
    /\ calls.active.op = "finalize" <=> run.pc = "finalizing"
    /\ DOMAIN tasks # {} => run.busy = 0 /\ calls.active.op = "None"

\* the second save_chunk of a batch of two is in progress, after two
\* concurrent fetches and after the first save_chunk has returned
C24_Witness ==
    /\ run.pc = "save_chunk" /\ run.busy = 1 /\ run.j = 2
    /\ config.batch_size = 2 /\ config.max_concurrent_requests = 2
    /\ Len(calls.save_chunk) = 2 /\ calls.errors = 0
    /\ disk.exists

----------------------------------------------------------------------------
(* Progress of a run, under SpecLive *)

\* the identifiers a run may fetch
LiveIds == FirstId..(FirstId + MaxIds - 1)

\* the fetch of p waits for a unit of the budget
Waiting(p) == p \in DOMAIN tasks /\ tasks[p].pc = "wait_sem"

\* the fetch of p holds a unit of the budget
Holding(p) == p \in DOMAIN tasks /\ tasks[p].holds

\* C26: under a fair scheduler, with every attempt, delay and write ending,
\* every fetch that waits for a budget unit eventually holds one, every
\* batch that is being gathered is eventually gathered, and every run
\* eventually has called finalize and has ended, for every range, batch
\* size and budget, also when batch_size > max_concurrent_requests.
C26_Progress ==
    /\ \A p \in LiveIds : Waiting(p) ~> Holding(p)
    /\ (run.pc = "gather") ~> (run.pc = "forward")
    /\ <>(calls.finalize = 1 /\ run.pc = "done")

\* a batch of two with a budget of one: one fetch is in its delay with the
\* only unit, the other waits for it
C26_Witness ==
    /\ config.batch_size = 2 /\ config.max_concurrent_requests = 1
    /\ semaphore = 0
    /\ \E p, q \in DOMAIN tasks :
          /\ tasks[p].pc = "delay" /\ tasks[p].holds
          /\ Waiting(q)

====
